---- MODULE Spec2Model ----
(***************************************************************************)
(* A model of the question-answering core of kaspaBot: the /ask handler    *)
(* (backend/api.py), the dual-source judge (backend/judge.py), the web     *)
(* retriever (backend/gemini_search.py) and the SQLite conversation store  *)
(* (backend/db/database.py, backend/db/conversation_manager.py).           *)
(*                                                                         *)
(* The handler is modelled statement block by statement block: `pc' is the *)
(* position of the one request in flight and the handler's local variables *)
(* are model variables.  External services (embedding + vector search,     *)
(* grounded web search, text generation) are inputs drawn at the step that *)
(* calls them.  Texts are sequences of word tokens.                        *)
(***************************************************************************)
EXTENDS Integers, Sequences, FiniteSets, TLC

(***************************************************************************)
(* Bounds of the model.                                                    *)
(***************************************************************************)
\* number of /ask requests served in one behaviour
MaxRequests == 1
\* seconds the store's clock (CURRENT_TIMESTAMP) can advance
MaxClock == 1

(***************************************************************************)
(* Program constants.                                                      *)
(***************************************************************************)
\* get_conversation_context(conversation_id, max_messages=8)
ContextMaxMessages == 8
\* fetch_web_chunks(request.question, k=5)
WebK == 5
\* _format_chunks_for_prompt: chunks[:12]
JudgeChunkLimit == 12

\* the static conversation id of ask_question
TempConversationId == "temp1234"
\* ids the uuid generator of start_conversation hands out, also usable by callers
Ids == {"conv-a"}
ConvIds == Ids \cup {TempConversationId}
\* request.conversation_id = None
NoId == "None"
Questions == {"what is kaspa"}
TempUser == "temp_user"

Min(a, b) == IF a <= b THEN a ELSE b

VARIABLES
    \* module-level configuration of backend/api.py, fixed at start-up
    USE_HYBRID,         \* api.py:21
    vector_db,          \* "qdrant" | "faiss" | "none" (FAISS index failed to load)
    \* the conversation store (SQLite tables)
    conversations,      \* conversation_id -> record, the conversations table
    messages,           \* the messages table in rowid order
    now,                \* CURRENT_TIMESTAMP, in seconds
    db_state,           \* "ok" | "unwritable": whether sqlite3 can write conversations.db
    \* the request in flight and the handler's locals
    pc,
    nreq,               \* requests accepted so far
    request,
    conversation_id,
    conversation_context,
    rag_results,
    web_results,
    answer,
    citations,
    bound,              \* which of answer / citations have been assigned
    response,
    \* observation of the run of the current request
    trace,              \* the operations performed, in order
    genLog,             \* the calls made to the generation service
    outcome,            \* what the external services did for this request
    \* callers of the store's operations that run side by side (worker threads)
    calls,              \* client -> the store operation it is executing
    \* a direct call of gemini_search.fetch_web_chunks
    web_call,           \* its arguments, its position and what it returned
    \* a query put to both backends of the local retriever
    retrieval,          \* the index, the query, k, and what retrieve and retrieve_from_qdrant did
    \* the Twitter bot
    bot_manager,        \* twitter_bot_integration.py: the TwitterBotManager instance
    bot_threads,        \* thread -> position and locals of TwitterBot.run in that thread
    db_queue,           \* queue_manager.py: the three tables of the queue database
    twitter             \* the clock and what Twitter and the backend have been asked to do

vars == <<USE_HYBRID, vector_db, conversations, messages, now, db_state, pc, nreq, request,
          conversation_id, conversation_context, rag_results, web_results, answer,
          citations, bound, response, trace, genLog, outcome, calls, web_call, retrieval,
          bot_manager, bot_threads, db_queue, twitter>>

config == <<USE_HYBRID, vector_db>>
store == <<conversations, messages>>
locals == <<conversation_id, conversation_context, rag_results, web_results,
            answer, citations, bound>>
\* state of the components that the single /ask handler below does not touch
bot_vars == <<bot_manager, bot_threads, db_queue, twitter>>
outside_ask == <<calls, web_call, retrieval, bot_vars>>
\* ... that the store operations do not touch
outside_store == <<web_call, retrieval, bot_vars>>
\* ... that fetch_web_chunks does not touch
outside_web == <<retrieval, bot_vars>>

(***************************************************************************)
(* Texts.                                                                  *)
(***************************************************************************)
\* outputs of the generation service (opaque prose), as word tokens; nothing keeps
\* the service from citing a source category or a link in its prose
GenTexts == { <<"kaspa", "blockchain", "(Web)", "https://kaspa.org">> }

\* core.py filter_blockchain_from_response: \bblockchain\b and \bblockchains\b are
\* replaced case-insensitively; the later patterns find nothing left to replace
FilterToken(w) ==
    IF w \in {"blockchain", "Blockchain", "BLOCKCHAIN"} THEN "BlockDAG"
    ELSE IF w \in {"blockchains", "Blockchains", "BLOCKCHAINS"} THEN "BlockDAGs"
    ELSE w

filter_blockchain_from_response(text) == [i \in 1..Len(text) |-> FilterToken(text[i])]

\* api.py:143
NoInfoMessage == <<"Sorry, I couldn't find any information to answer your question. Please try rephrasing or asking something else.">>
\* api.py:223
RagErrorMessage == <<"Sorry, there was an error processing your question:", "<exception>">>
\* judge.py:101
JudgeErrorMessage == <<"(Error during judgment:", "<exception>", ")">>

ErrorTexts == {RagErrorMessage, JudgeErrorMessage}

(***************************************************************************)
(* The conversation store.                                                 *)
(***************************************************************************)
conversation_exists(convs, cid) == cid \in DOMAIN convs

\* an INSERT OR REPLACE: a second creation overwrites the record of the first
create_conversation_replace(convs, cid, title, user_id, t) ==
    [c \in DOMAIN convs \cup {cid} |->
        IF c = cid
        THEN [title |-> title, user_id |-> user_id, created_at |-> t, last_updated |-> t]
        ELSE convs[c]]

\* database.py create_conversation: INSERT, or IntegrityError on the UNIQUE id
create_conversation(convs, cid, title, user_id, t) ==
    IF cid \in DOMAIN convs
    THEN convs
    ELSE [c \in DOMAIN convs \cup {cid} |->
            IF c = cid
            THEN [title |-> title, user_id |-> user_id, created_at |-> t, last_updated |-> t]
            ELSE convs[c]]

\* conversation_manager.py start_conversation with a given id
start_conversation(convs, user_id, title, cid, t) ==
    create_conversation(convs, cid, title, user_id, t)

\* database.py add_message, the rows written: the conversations table after it
add_message_conversations(convs, cid, t) ==
    LET ensured == create_conversation(convs, cid, <<>>, "None", t)
    IN  [ensured EXCEPT ![cid].last_updated = t]

\* database.py add_message, the rows written: the messages table after it
add_message_messages(msgs, cid, role, content, metadata, t, req) ==
    Append(msgs, [conversation_id |-> cid, role |-> role, content |-> content,
                  metadata |-> metadata, timestamp |-> t, req |-> req])

\* rows of a conversation in an order ORDER BY timestamp ASC allows
RECURSIVE TimestampOrders(_, _)
TimestampOrders(msgs, S) ==
    IF S = {} THEN { <<>> }
    ELSE LET firsts == {i \in S : \A j \in S : msgs[i].timestamp <= msgs[j].timestamp}
         IN  UNION { { <<i>> \o rest : rest \in TimestampOrders(msgs, S \ {i}) } : i \in firsts }

\* database.py get_conversation_history: the results the query can give
get_conversation_history(msgs, cid, limit) ==
    LET rows == {i \in 1..Len(msgs) : msgs[i].conversation_id = cid}
    IN  { [k \in 1..Min(limit, Len(o)) |-> msgs[o[k]]] : o \in TimestampOrders(msgs, rows) }

\* conversation_manager.py get_conversation_context: {role, content} of each row
get_conversation_context(msgs, cid, max_messages) ==
    { [k \in 1..Len(h) |-> [role |-> h[k].role, content |-> h[k].content, req |-> h[k].req]]
        : h \in get_conversation_history(msgs, cid, max_messages) }

\* database.py delete_conversation, the messages table after it
delete_conversation_messages(msgs, cid) ==
    SelectSeq(msgs, LAMBDA m : m.conversation_id # cid)

\* a delete that removes the turns and leaves the conversation record
delete_conversation_keeps_record(convs, cid) == convs

\* database.py delete_conversation, the conversations table after it
delete_conversation_conversations(convs, cid) ==
    [c \in DOMAIN convs \ {cid} |-> convs[c]]

(***************************************************************************)
(* Evidence chunks and the retrievers.                                     *)
(***************************************************************************)
\* a hit of the local index as ask_question sees it; retrieve_from_qdrant keeps
\* the score (qdrant_retrieval.py:36), retrieve strips it (core.py:414)
LocalChunk(db, i) ==
    [content |-> <<"ghostdag", "procedure">>, source |-> "whitepaper", section |-> "s",
     filename |-> "f", url |-> "", has_score |-> (db = "qdrant"), score |-> IF db = "qdrant" THEN 10 - i ELSE 0]

\* what the call of the local retriever does: it raises, never returns, or gives n hits
LocalResponses ==
    { [kind |-> "raise", n |-> 0], [kind |-> "hang", n |-> 0] }
        \cup { [kind |-> "hits", n |-> n] : n \in {0, 1} }

LocalHits(db, n) == [i \in 1..n |-> LocalChunk(db, i)]

\* gemini_search.py:124-130, one parsed item
WebChunk == [content |-> <<"kaspa", "upgrade">>, url |-> "https://kaspa.org", date |-> "2024-05-01",
             source |-> "web_search", score |-> 1]
\* gemini_search.py:108-114, the chunk returned when the search service errors
SyntheticChunk == [content |-> <<"Unable to retrieve web results:", "<exception>">>, url |-> "",
                   date |-> "unknown", source |-> "web_search", score |-> 0]
\* gemini_search.py:132-138, the whole raw text as one chunk (it has no url key)
RawChunk == [content |-> <<"<raw text>">>, url |-> "", date |-> "unknown",
             source |-> "web_search", score |-> 1]

\* no query is put to the local retriever
NoRetrieval == [pc |-> "idle", index |-> {}, dist |-> <<>>, query |-> {}, k |-> 0,
                embedding |-> "", flat |-> [pc |-> "idle", chunks |-> <<>>],
                qdrant |-> [pc |-> "idle", chunks |-> <<>>]]

\* no call of fetch_web_chunks is under way
NoWebCall == [pc |-> "idle", resp |-> [kind |-> "", json |-> "", items |-> <<>>], k |-> 0,
              chunks |-> <<>>]

\* JSON items of the service's list: an object, or something that is no object
WebItemLists == { <<>>, <<"object">>, <<"string">> }

\* what the web search does: no API key (_client raises), the service errors, it
\* never answers, or it returns a text
WebResponses ==
    { [kind |-> k, json |-> "", items |-> <<>>] : k \in {"no_key", "api_error", "hang"} }
        \cup { [kind |-> "text", json |-> j, items |-> <<>>] : j \in {"empty", "invalid", "nonlist"} }
        \cup { [kind |-> "text", json |-> "list", items |-> l] : l \in WebItemLists }

\* gemini_search.py:123-131: the loop over data[:k]; a non-object item raises inside
\* the try, which keeps the chunks appended so far and appends the raw text
RECURSIVE ParseItems(_, _)
ParseItems(items, k) ==
    IF items = <<>> \/ k = 0 THEN <<>>
    ELSE IF Head(items) = "object" THEN <<WebChunk>> \o ParseItems(Tail(items), k - 1)
    ELSE <<RawChunk>>

\* a fetch_web_chunks that answers a service error with no chunk at all
fetch_web_chunks_silent(resp, k) ==
    IF resp.kind = "api_error" THEN <<>>
    ELSE IF resp.json = "empty" THEN <<>>
    ELSE IF resp.json = "invalid" THEN <<RawChunk>>
    ELSE IF resp.json = "nonlist" THEN <<>>
    ELSE ParseItems(resp.items, k)

\* gemini_search.py fetch_web_chunks, for a response on which it returns
fetch_web_chunks(resp, k) ==
    IF resp.kind = "api_error" THEN <<SyntheticChunk>>
    ELSE IF resp.json = "empty" THEN <<>>
    ELSE IF resp.json = "invalid" THEN <<RawChunk>>
    ELSE IF resp.json = "nonlist" THEN <<>>
    ELSE ParseItems(resp.items, k)

\* gemini_search.py:52 and 26-29: _client() is called outside the try
fetch_web_chunks_raises(resp) == resp.kind = "no_key"

\* api.py:158-167 and 211-220
RagCitation(r) ==
    [source |-> r.source, section |-> r.section, filename |-> r.filename, url |-> r.url,
     date |-> "", score |-> r.score, type |-> "rag"]
\* api.py:169-178
WebCitation(r) ==
    [source |-> r.source, section |-> "", filename |-> "", url |-> r.url,
     date |-> r.date, score |-> r.score, type |-> "web"]

RagCitations(rag) == [i \in 1..Len(rag) |-> RagCitation(rag[i])]
WebCitations(web) == [i \in 1..Len(web) |-> WebCitation(web[i])]

\* api.py:227
citation_metadata(cites) ==
    [i \in 1..Len(cites) |-> [source |-> cites[i].source, type |-> cites[i].type]]

\* what a call of the generation service does
GenResponses ==
    { [kind |-> k, text |-> <<>>] : k \in {"raise", "hang"} }
        \cup { [kind |-> "text", text |-> t] : t \in GenTexts }

(***************************************************************************)
(* The decisions of ask_question.                                          *)
(***************************************************************************)
\* api.py:84-93
ResolveConversationId(convs, given) ==
    IF given = NoId THEN TempConversationId
    ELSE IF ~conversation_exists(convs, given) THEN TempConversationId
    ELSE given

\* api.py:141
NoResults(rag, web) == rag = <<>> /\ web = <<>>
\* api.py:145
UseJudge(hybrid, rag, web) == hybrid /\ rag # <<>> /\ web # <<>>
\* a condition that runs the traditional flow after every question
TraditionalRagFlowAlways(hybrid, web) == TRUE
\* api.py:187-188; use_hybrid_local is USE_HYBRID again whatever happened above
TraditionalRagFlow(hybrid, web) == ~hybrid \/ (hybrid /\ web = <<>>)

\* a mis-ordering of the first statements: the user turn is appended first
AfterStepUserFirst(step) ==
    CASE step = "resolve" -> "add_user"
      [] step = "add_user" -> "get_context"
      [] step = "get_context" -> "local"
      [] step = "local" -> "web"
      [] step = "web" -> "arbitrate"
      [] step = "arbitrate" -> "rag_flow"
      [] step = "rag_flow" -> "store"
      [] step = "store" -> "return"

\* the statement order of ask_question
AfterStep(step) ==
    CASE step = "resolve" -> "get_context"
      [] step = "get_context" -> "add_user"
      [] step = "add_user" -> "local"
      [] step = "local" -> "web"
      [] step = "web" -> "arbitrate"
      [] step = "arbitrate" -> "rag_flow"
      [] step = "rag_flow" -> "store"
      [] step = "store" -> "return"

(***************************************************************************)
(* The state after start-up: empty tables, no request in flight.           *)
(***************************************************************************)
NoRequest == [question |-> "", conversation_id |-> NoId, user_id |-> "None"]
NoResponse == [status |-> "none", answer |-> <<>>, citations |-> <<>>,
               conversation_id |-> NoId, vector_db |-> "", hybrid |-> FALSE]
NoOutcome == [local |-> "none", web |-> "none", local_hits |-> <<>>, judge |-> "none",
              generate |-> "none", existed |-> FALSE, write_failed |-> {}]

\* the threads of the server's pool that call the store at the same time
Clients == {"c1", "c2"}
NoPost == [ok |-> FALSE, id |-> NoId, context |-> <<>>, exists |-> FALSE, has_turn |-> FALSE,
           history |-> <<>>, removed |-> 0]
NoCall == [op |-> "none", pc |-> "idle", given |-> NoId, cid |-> NoId, user_id |-> "None",
           role |-> "", content |-> <<>>, title |-> <<>>, limit |-> 0, call |-> 0,
           healed |-> FALSE, post |-> NoPost]

\* what conversations.db holds when the server starts: nothing, or one exchange
\* that an earlier run of ask_question stored under the static id
EarlierExchange ==
    << [conversation_id |-> TempConversationId, role |-> "user", content |-> <<"what is ghostdag">>,
        metadata |-> <<>>, timestamp |-> 0, req |-> 0],
       [conversation_id |-> TempConversationId, role |-> "assistant", content |-> <<"kaspa", "BlockDAG">>,
        metadata |-> <<>>, timestamp |-> 0, req |-> 0] >>

(***************************************************************************)
(* The Twitter bot: constants and initial values.                          *)
(***************************************************************************)
\* optimized_mention_bot.py:49-50; the clock counts half windows
POST_RATE_LIMIT == 100
POST_WINDOW == 2
\* optimized_mention_bot.py:8 and twitter_bot_integration.py:149, the limit announced
DailyPostLimit == 17

\* threads that start_bot can create
MaxThreads == 2
Threads == 1..MaxThreads
\* mentions of the bot that the search can return
MaxMentions == 2
Mentions == 1..MaxMentions
\* cycles that the threads run in all
MaxCycles == 2
\* database writes that fail
MaxWriteFailures == 1
\* calls made to the bot manager
MaxManagerCalls == 3
\* clock ticks after start-up
MaxTicks == 1
\* replies to one mention after which the model stops counting
MaxReplies == 2
\* optimized_mention_bot.py:268-270, the length Twitter accepts; a text is modelled
\* by its length, and the backend answers within the limit or one character beyond
TweetLimit == 280
AnswerLengths == {TweetLimit, TweetLimit + 1}
\* replies that an earlier run of the process posted in the current window
EarlierPosts == {0, DailyPostLimit}

\* twitter_bot_integration.py:28-34
NoBot == [is_running |-> FALSE, bot |-> 0, bot_thread |-> 0, ncalls |-> 0]
\* RateLimitTracker.data, queue_manager.py:316-320
NoRateData == [last_search_time |-> 0, last_post_reset |-> 0, posts_today |-> 0]
\* a thread that start_bot has not created
Unborn == [pc |-> "unborn", data |-> NoRateData, mentions |-> <<>>, to_post |-> <<>>,
           result |-> "none", began_stopped |-> FALSE]
\* no row of twitter_queue has this mention_id
NoRow == [present |-> FALSE, response_text |-> 0, priority |-> 0, id |-> 0, posted |-> FALSE,
          success |-> "null"]
\* queue_manager.py:26-70, the tables; after n replies in the window that began at
\* POST_WINDOW the rate-limit row holds posts_today = n
EmptyQueue(n) ==
    [twitter_queue |-> [m \in Mentions |-> NoRow], processed_mentions |-> {}, next_id |-> 1,
     twitter_rate_limits |-> IF n = 0 THEN NoRateData
                             ELSE [last_search_time |-> POST_WINDOW, last_post_reset |-> POST_WINDOW,
                                   posts_today |-> n]]
\* time.time() at start-up is more than a window after 0; no mention has a reply, and
\* post_tweet has been called for none
NoTraffic(n) ==
    [clock |-> POST_WINDOW, earlier |-> n, replies |-> [m \in Mentions |-> <<>>],
     asked |-> [m \in Mentions |-> 0], attempted |-> {}, cycles |-> 0, failures |-> 0]

InitStores ==
    { [conversations |-> <<>>, messages |-> <<>>],
      [conversations |-> start_conversation(<<>>, TempUser, <<"Conversation", TempConversationId>>,
                                            TempConversationId, 0),
       messages |-> EarlierExchange] }

InitCore ==
    /\ USE_HYBRID \in BOOLEAN
    /\ vector_db \in {"qdrant", "faiss", "none"}
    /\ \E s \in InitStores : conversations = s.conversations /\ messages = s.messages
    /\ now = 0
    /\ db_state = "ok"
    /\ pc = "idle"
    /\ nreq = 0
    /\ request = NoRequest
    /\ conversation_id = NoId
    /\ conversation_context = <<>>
    /\ rag_results = <<>>
    /\ web_results = <<>>
    /\ answer = <<>>
    /\ citations = <<>>
    /\ bound = [answer |-> FALSE, citations |-> FALSE]
    /\ response = NoResponse
    /\ trace = <<>>
    /\ genLog = <<>>
    /\ outcome = NoOutcome
    /\ calls = [c \in Clients |-> NoCall]
    /\ web_call = NoWebCall
    /\ retrieval = NoRetrieval

\* the bot has never been started; the queue database holds the rate-limit row that
\* an earlier run of the process left, after n replies posted in the current window
InitBotWith(n) ==
    /\ bot_manager = NoBot
    /\ bot_threads = [t \in Threads |-> Unborn]
    /\ db_queue = EmptyQueue(n)
    /\ twitter = NoTraffic(n)

Init == InitCore /\ InitBotWith(0)

Idle == pc = "idle"

\* sqlite3 raises OperationalError on a write when the file is locked, read-only or
\* the disk is full
Writable == db_state = "ok"

\* the seconds in which the next statement can execute
Times == {now, Min(now + 1, MaxClock)}

\* api.py:295-309 POST /conversations/new: start_conversation with a generated id
create_new_conversation ==
    /\ Idle
    /\ Writable
    /\ \E cid \in Ids \ DOMAIN conversations, t \in Times :
          /\ now' = t
          /\ conversations' = start_conversation(conversations, "None", <<>>, cid, t)
    /\ UNCHANGED <<config, db_state, outside_ask, messages, pc, nreq, request, locals, response, trace, genLog, outcome>>

(***************************************************************************)
(* POST /ask, api.py:81-237.                                               *)
(***************************************************************************)
\* a request arrives
Ask ==
    /\ Idle
    /\ nreq < MaxRequests
    /\ \E q \in Questions, cid \in ConvIds \cup {NoId} :
          /\ request' = [question |-> q, conversation_id |-> cid, user_id |-> "None"]
          /\ outcome' = [NoOutcome EXCEPT !.existed = conversation_exists(conversations, cid)]
    /\ nreq' = nreq + 1
    /\ pc' = "resolve"
    /\ UNCHANGED <<config, db_state, outside_ask, store, now, locals, response, trace, genLog>>

\* api.py:84-97: resolve the conversation id and make sure its record exists
ResolveConversation ==
    /\ pc = "resolve"
    /\ LET cid == ResolveConversationId(conversations, request.conversation_id)
           user == IF request.user_id = "None" THEN TempUser ELSE request.user_id
       IN  /\ conversation_id' = cid
           /\ IF conversation_exists(conversations, cid)
              THEN /\ pc' = AfterStep("resolve")
                   /\ trace' = Append(trace, "resolve")
                   /\ UNCHANGED <<conversations, now, response, outcome>>
              ELSE IF Writable
              THEN /\ \E t \in Times :
                        /\ now' = t
                        /\ conversations' = start_conversation(conversations, user,
                                                               <<"Conversation", cid>>, cid, t)
                   /\ pc' = AfterStep("resolve")
                   /\ trace' = Append(trace, "resolve")
                   /\ UNCHANGED <<response, outcome>>
              \* database.py:64 catches IntegrityError only: any other sqlite3 error
              \* leaves create_conversation, start_conversation and ask_question
              ELSE /\ response' = [NoResponse EXCEPT !.status = "error"]
                   /\ outcome' = [outcome EXCEPT !.write_failed = @ \cup {"create"}]
                   /\ pc' = "done"
                   /\ trace' = Append(trace, "create_raise")
                   /\ UNCHANGED <<conversations, now>>
    /\ UNCHANGED <<config, db_state, outside_ask, messages, nreq, request, conversation_context, rag_results,
                   web_results, answer, citations, bound, genLog>>

\* api.py:100
GetContext ==
    /\ pc = "get_context"
    /\ conversation_context' \in get_conversation_context(messages, conversation_id, ContextMaxMessages)
    /\ pc' = AfterStep("get_context")
    /\ trace' = Append(trace, "get_context")
    /\ UNCHANGED <<config, db_state, outside_ask, store, now, nreq, request, conversation_id, rag_results,
                   web_results, answer, citations, bound, response, genLog, outcome>>

\* api.py:103
AddUserMessage ==
    /\ pc = "add_user"
    /\ IF Writable
       THEN /\ \E t \in Times :
                 /\ now' = t
                 /\ conversations' = add_message_conversations(conversations, conversation_id, t)
                 /\ messages' = add_message_messages(messages, conversation_id, "user",
                                                     <<request.question>>, <<>>, t, nreq)
            /\ UNCHANGED outcome
       \* database.py:94-96: add_message returns False, which ask_question ignores
       ELSE /\ outcome' = [outcome EXCEPT !.write_failed = @ \cup {"user"}]
            /\ UNCHANGED <<store, now>>
    /\ pc' = AfterStep("add_user")
    /\ trace' = Append(trace, "add_user")
    /\ UNCHANGED <<config, db_state, outside_ask, nreq, request, locals, response, genLog>>

\* api.py:106-128: the local retriever; a raised exception is caught and printed
LocalRetrieve ==
    /\ pc = "local"
    /\ IF vector_db = "none"
       THEN /\ rag_results' = <<>>
            /\ outcome' = [outcome EXCEPT !.local = "not_loaded"]
            /\ pc' = AfterStep("local")
            /\ trace' = Append(trace, "local_skipped")
       ELSE \E r \in LocalResponses :
            /\ outcome' = [outcome EXCEPT !.local = r.kind, !.local_hits = LocalHits(vector_db, r.n)]
            /\ trace' = Append(trace, "local_retrieve")
            /\ rag_results' = IF r.kind = "hits" THEN LocalHits(vector_db, r.n) ELSE <<>>
            /\ pc' = IF r.kind = "hang" THEN "local_blocked" ELSE AfterStep("local")
    /\ UNCHANGED <<config, db_state, outside_ask, store, now, nreq, request, conversation_id, conversation_context,
                   web_results, answer, citations, bound, response, genLog>>

\* api.py:131-138: the web retriever; a raised exception is caught and printed
WebRetrieve ==
    /\ pc = "web"
    /\ IF ~USE_HYBRID
       THEN /\ web_results' = <<>>
            /\ outcome' = [outcome EXCEPT !.web = "disabled"]
            /\ pc' = AfterStep("web")
            /\ trace' = Append(trace, "web_skipped")
       ELSE \E r \in WebResponses :
            /\ outcome' = [outcome EXCEPT !.web = r.kind]
            /\ trace' = Append(trace, "web_retrieve")
            /\ web_results' = IF r.kind = "hang" \/ fetch_web_chunks_raises(r)
                              THEN <<>>
                              ELSE fetch_web_chunks(r, WebK)
            /\ pc' = IF r.kind = "hang" THEN "web_blocked" ELSE AfterStep("web")
    /\ UNCHANGED <<config, db_state, outside_ask, store, now, nreq, request, conversation_id, conversation_context,
                   rag_results, answer, citations, bound, response, genLog>>

\* judge.py:15-29 _format_chunks_for_prompt: the first 12 chunks make the block
format_chunks_for_prompt(chunks) == SubSeq(chunks, 1, Min(JudgeChunkLimit, Len(chunks)))

\* judge.py:32-98: the one request judge_merge_answers sends, [system, user]
JudgePrompt(question, rag, web) ==
    [fn |-> "judge_merge_answers", question |-> question,
     rag |-> format_chunks_for_prompt(rag), web |-> format_chunks_for_prompt(web),
     prior |-> <<>>]

\* api.py:192-204: system prompt, prior turns, current question with the RAG context
RagPrompt(question, rag, context) ==
    [fn |-> "generate_answer", question |-> question, rag |-> rag, web |-> <<>>,
     prior |-> context]

\* judge.py:92-103: the text judge_merge_answers returns
JudgeContent(g) == IF g.kind = "text" THEN g.text ELSE JudgeErrorMessage

\* api.py:141-184: no results, or the judge, or neither branch
Arbitrate ==
    /\ pc = "arbitrate"
    /\ IF NoResults(rag_results, web_results)
       THEN /\ answer' = NoInfoMessage
            /\ citations' = <<>>
            /\ bound' = [answer |-> TRUE, citations |-> TRUE]
            /\ pc' = AfterStep("arbitrate")
            /\ trace' = Append(trace, "no_results")
            /\ UNCHANGED <<genLog, outcome>>
       ELSE IF UseJudge(USE_HYBRID, rag_results, web_results)
       THEN \E g \in GenResponses :
            /\ genLog' = Append(genLog, JudgePrompt(request.question, rag_results, web_results))
            /\ outcome' = [outcome EXCEPT !.judge = g.kind]
            /\ trace' = Append(trace, "judge")
            /\ IF g.kind = "hang"
               THEN /\ pc' = "judge_blocked"
                    /\ UNCHANGED <<answer, citations, bound>>
               ELSE /\ answer' = filter_blockchain_from_response(JudgeContent(g))
                    /\ citations' = RagCitations(rag_results) \o WebCitations(web_results)
                    /\ bound' = [answer |-> TRUE, citations |-> TRUE]
                    /\ pc' = AfterStep("arbitrate")
       ELSE /\ pc' = AfterStep("arbitrate")
            /\ trace' = Append(trace, "no_branch")
            /\ UNCHANGED <<answer, citations, bound, genLog, outcome>>
    /\ UNCHANGED <<config, db_state, outside_ask, store, now, nreq, request, conversation_id, conversation_context,
                   rag_results, web_results, response>>

\* judge.py:97 and 100-101: timeout=15.0 ends the call with an exception, which is caught
JudgeTimeout ==
    /\ pc = "judge_blocked"
    /\ answer' = filter_blockchain_from_response(JudgeErrorMessage)
    /\ citations' = RagCitations(rag_results) \o WebCitations(web_results)
    /\ bound' = [answer |-> TRUE, citations |-> TRUE]
    /\ pc' = AfterStep("arbitrate")
    /\ trace' = Append(trace, "judge_timeout")
    /\ UNCHANGED <<config, db_state, outside_ask, store, now, nreq, request, conversation_id, conversation_context,
                   rag_results, web_results, response, genLog, outcome>>

\* api.py:187-224: the traditional RAG flow
RagFlow ==
    /\ pc = "rag_flow"
    /\ IF TraditionalRagFlow(USE_HYBRID, web_results)
       THEN \E g \in GenResponses :
            /\ genLog' = Append(genLog, RagPrompt(request.question, rag_results, conversation_context))
            /\ outcome' = [outcome EXCEPT !.generate = g.kind]
            /\ trace' = Append(trace, "generate_answer")
            /\ IF g.kind = "hang"
               THEN /\ pc' = "generate_blocked"
                    /\ UNCHANGED <<answer, citations, bound>>
               ELSE /\ answer' = IF g.kind = "text"
                                 THEN filter_blockchain_from_response(g.text)
                                 ELSE RagErrorMessage
                    /\ citations' = IF g.kind = "text" THEN RagCitations(rag_results) ELSE <<>>
                    /\ bound' = [answer |-> TRUE, citations |-> TRUE]
                    /\ pc' = AfterStep("rag_flow")
       ELSE /\ pc' = AfterStep("rag_flow")
            /\ trace' = Append(trace, "rag_flow_skipped")
            /\ UNCHANGED <<answer, citations, bound, genLog, outcome>>
    /\ UNCHANGED <<config, db_state, outside_ask, store, now, nreq, request, conversation_id, conversation_context,
                   rag_results, web_results, response>>

\* api.py:227-228: reading an unassigned `citations' raises; else the assistant turn is stored
StoreAssistant ==
    /\ pc = "store"
    /\ IF ~bound.citations
       THEN /\ response' = [NoResponse EXCEPT !.status = "error"]
            /\ pc' = "done"
            /\ trace' = Append(trace, "raise")
            /\ UNCHANGED <<store, now, outcome>>
       ELSE /\ IF Writable
               THEN /\ \E t \in Times :
                         /\ now' = t
                         /\ conversations' = add_message_conversations(conversations,
                                                                       conversation_id, t)
                         /\ messages' = add_message_messages(messages, conversation_id,
                                                             "assistant", answer,
                                                             citation_metadata(citations), t, nreq)
                    /\ UNCHANGED outcome
               ELSE /\ outcome' = [outcome EXCEPT !.write_failed = @ \cup {"assistant"}]
                    /\ UNCHANGED <<store, now>>
            /\ pc' = AfterStep("store")
            /\ trace' = Append(trace, "add_assistant")
            /\ UNCHANGED response
    /\ UNCHANGED <<config, db_state, outside_ask, nreq, request, locals, genLog>>

\* api.py:231-237
Return ==
    /\ pc = "return"
    /\ response' = [status |-> "ok", answer |-> answer, citations |-> citations,
                    conversation_id |-> conversation_id,
                    vector_db |-> IF vector_db = "qdrant" THEN "qdrant" ELSE "faiss",
                    hybrid |-> USE_HYBRID]
    /\ pc' = "done"
    /\ trace' = Append(trace, "return")
    /\ UNCHANGED <<config, db_state, outside_ask, store, now, nreq, request, locals, genLog, outcome>>

\* the response has been delivered (or the 500 error has): the handler's frame is gone
Finish ==
    /\ pc = "done"
    /\ pc' = "idle"
    /\ request' = NoRequest
    /\ conversation_id' = NoId
    /\ conversation_context' = <<>>
    /\ rag_results' = <<>>
    /\ web_results' = <<>>
    /\ answer' = <<>>
    /\ citations' = <<>>
    /\ bound' = [answer |-> FALSE, citations |-> FALSE]
    /\ response' = NoResponse
    /\ trace' = <<>>
    /\ genLog' = <<>>
    /\ outcome' = NoOutcome
    /\ UNCHANGED <<config, db_state, outside_ask, store, now, nreq>>

\* the steps of the handler
AskStep ==
    \/ ResolveConversation
    \/ GetContext
    \/ AddUserMessage
    \/ LocalRetrieve
    \/ WebRetrieve
    \/ Arbitrate
    \/ JudgeTimeout
    \/ RagFlow
    \/ StoreAssistant
    \/ Return
    \/ Finish

Next ==
    \/ create_new_conversation
    \/ Ask
    \/ AskStep

Spec == Init /\ [][Next]_vars

(***************************************************************************)
(* Properties of ask_question.                                             *)
(***************************************************************************)
InTrace(e) == \E i \in 1..Len(trace) : trace[i] = e
Pos(e) == CHOOSE i \in 1..Len(trace) : trace[i] = e
Before(a, b) == InTrace(a) /\ (InTrace(b) => Pos(a) < Pos(b))

\* the turns of a role that the current request stored
TurnsOfRequest(role) ==
    {i \in 1..Len(messages) : messages[i].req = nreq /\ messages[i].role = role}

Returned == pc = "done" /\ response.status = "ok"
RetrieverEvents == {"local_retrieve", "local_skipped", "web_retrieve", "web_skipped"}

\* C1: with both chunk sets empty the generation service is not called and the
\* answer is the fixed no-information message
C1_NoEvidenceNoGeneration ==
    (pc = "done" /\ rag_results = <<>> /\ web_results = <<>>)
        => /\ genLog = <<>>
           /\ response.status = "ok"
           /\ response.answer = NoInfoMessage

\* C2: every finished call has stored exactly one user turn and one assistant turn,
\* and a failed generation's message is the stored assistant turn
C2_TwoTurnsPerCall ==
    pc = "done"
        => /\ Cardinality(TurnsOfRequest("user")) = 1
           /\ Cardinality(TurnsOfRequest("assistant")) = 1
           /\ (outcome.generate = "raise" \/ outcome.judge \in {"raise", "hang"})
                => \A i \in TurnsOfRequest("assistant") : messages[i].content \in ErrorTexts

\* C3: with exactly one chunk set non-empty the answer comes from one direct
\* generation call over that set alone, and the judge is not called
C3_SingleSourceDirect ==
    (pc = "done" /\ ((rag_results = <<>>) # (web_results = <<>>)))
        => /\ Len(genLog) = 1
           /\ genLog[1].fn = "generate_answer"
           /\ genLog[1].rag = rag_results
           /\ genLog[1].web = web_results

\* C4: when the judge's generation call fails, the local-only generation path runs
\* and its answer is returned instead of an error text
C4_JudgeFailureFallsBack ==
    (pc = "done" /\ outcome.judge \in {"raise", "hang"})
        => /\ response.status = "ok"
           /\ Len(genLog) = 2
           /\ genLog[2] = RagPrompt(request.question, rag_results, conversation_context)
           /\ response.answer # JudgeErrorMessage

\* C5: every call ends by returning answer, citations and conversation_id; no
\* exception escapes
C5_AlwaysResponds ==
    pc = "done"
        => /\ response.status = "ok"
           /\ response.conversation_id \in ConvIds
           /\ response.answer # <<>>

\* C6: a call with a supplied id that has no record creates the conversation under
\* that id, stores both turns in it and returns the same id
C6_SuppliedIdCreated ==
    (Returned /\ request.conversation_id \in ConvIds /\ ~outcome.existed)
        => /\ conversation_exists(conversations, request.conversation_id)
           /\ response.conversation_id = request.conversation_id
           /\ \A i \in TurnsOfRequest("user") \cup TurnsOfRequest("assistant") :
                 messages[i].conversation_id = request.conversation_id

\* C7 as stated: a failed local retriever leaves the local set empty and the web
\* retriever still runs; a failed web retriever, an error of its search service
\* included, leaves the web set empty and keeps the local chunks
C7_FailuresDegradeToEmpty ==
    /\ outcome.local = "raise"
         => /\ rag_results = <<>>
            /\ pc = "web" \/ InTrace("web_retrieve") \/ InTrace("web_skipped")
            /\ (USE_HYBRID /\ pc # "web") => InTrace("web_retrieve")
    /\ outcome.web \in {"no_key", "api_error"}
         => /\ web_results = <<>>
            /\ rag_results = outcome.local_hits

\* C7 amended: as above, but an error of the search service leaves one synthetic
\* chunk in the web set instead of an empty set
C7_FailuresDegrade ==
    /\ outcome.local = "raise"
         => /\ rag_results = <<>>
            /\ pc = "web" \/ InTrace("web_retrieve") \/ InTrace("web_skipped")
            /\ (USE_HYBRID /\ pc # "web") => InTrace("web_retrieve")
    /\ outcome.web = "no_key"
         => /\ web_results = <<>>
            /\ rag_results = outcome.local_hits
    /\ outcome.web = "api_error"
         => /\ web_results = <<SyntheticChunk>>
            /\ rag_results = outcome.local_hits

\* a question answered after the search service failed while the local index had hits
C7_Witness ==
    /\ Returned
    /\ outcome.web = "api_error"
    /\ rag_results # <<>>

\* C8: a request in flight can always take its next step: no call to an external
\* service blocks the handler for ever
C8_NeverBlocked == pc # "idle" => ENABLED AskStep

C10_UserTurnThenContext ==
    /\ InTrace("get_context") => Before("add_user", "get_context")
    /\ \A e \in RetrieverEvents :
          InTrace(e) => Before("add_user", e) /\ Before("get_context", e)

\* C10 amended: the prior context is fetched before the user turn is appended (it is
\* the stored history as it was then and never holds the current question's turn),
\* and both happen before either retriever
C10_ContextThenUserTurn ==
    /\ InTrace("add_user") => Before("get_context", "add_user")
    /\ \A k \in 1..Len(conversation_context) : conversation_context[k].req < nreq
    /\ pc = "add_user" => conversation_context \in
                              get_conversation_context(messages, conversation_id,
                                                       ContextMaxMessages)
    /\ \A e \in RetrieverEvents :
          InTrace(e) => Before("add_user", e) /\ Before("get_context", e)

\* both retrievers have run for a conversation that had earlier turns
C10_Witness ==
    /\ InTrace("local_retrieve")
    /\ InTrace("web_retrieve")
    /\ conversation_context # <<>>

\* C11: every generation call made for a conversation that has prior turns carries
\* those turns in its prompt, on the judge path as on the single-source path
C11_PriorTurnsInPrompt ==
    \A i \in 1..Len(genLog) : genLog[i].prior = conversation_context

(***************************************************************************)
(* POST /ask while the database file can become unwritable and writable    *)
(* again at any moment.                                                    *)
(***************************************************************************)
StoreAvailability ==
    /\ db_state' \in {"ok", "unwritable"} \ {db_state}
    /\ UNCHANGED <<config, outside_ask, store, now, pc, nreq, request, locals, response,
                   trace, genLog, outcome>>

NextFaults ==
    \/ Next
    \/ StoreAvailability

SpecFaults == Init /\ [][NextFaults]_vars

\* C12: a call during which a store write failed, and nothing else went wrong, still
\* returns its answer
C12_WriteFailureStillAnswers ==
    (pc = "done" /\ outcome.write_failed # {} /\ ~InTrace("raise"))
        => /\ response.status = "ok"
           /\ response.answer = answer

(***************************************************************************)
(* The store's operations called from several threads at once. Every       *)
(* `with sqlite3.connect(...)' block commits once and SQLite serialises the *)
(* transactions, so each block is one step.                                *)
(***************************************************************************)
\* store calls started in one behaviour
MaxCalls == 2
\* get_conversation_history(conversation_id, limit=50)
HistoryDefaultLimit == 50

\* the conversation the threads work on
StoreIds == {TempConversationId}
Titles == { <<"first">>, <<"second">> }
ContextLimits == {1, ContextMaxMessages}
AnswerText == <<"kaspa", "BlockDAG">>

ask_state == <<pc, request, locals, response, trace, genLog, outcome>>

\* an add_message without the UPDATE of last_updated
add_message_no_update(convs, cid, t) == convs

\* database.py:86-90: the UPDATE of last_updated changes the row if there is one
add_message_update(convs, cid, t) ==
    IF cid \in DOMAIN convs THEN [convs EXCEPT ![cid].last_updated = t] ELSE convs

\* the rows get_conversation_history(cid) can return hold the turn of call n, role r
HistoryHasTurn(msgs, cid, n, r) ==
    LET rows == {i \in 1..Len(msgs) : msgs[i].conversation_id = cid}
    IN  IF Cardinality(rows) <= HistoryDefaultLimit
        \* no row is cut off: every order of the rows holds them all
        THEN \E i \in rows : msgs[i].req = n /\ msgs[i].role = r
        ELSE \A h \in get_conversation_history(msgs, cid, HistoryDefaultLimit) :
                \E k \in 1..Len(h) : h[k].req = n /\ h[k].role = r

\* where a thread goes after a store step: back to its caller, or on with the
\* statements of ask_question (api.py:96-103 and 227-228)
AfterStoreStep(call, step) ==
    IF call.op # "ask_question" THEN "returned"
    ELSE CASE step = "create" -> "read"
           [] step = "read" -> "select"
           [] step = "insert" -> IF call.role = "user" THEN "ask_evidence" ELSE "returned"

\* the turns of a conversation in the order of their insertion (rowid), as
\* get_conversation_context shows a turn
AppendOrder(msgs, cid) ==
    LET rows == SelectSeq(msgs, LAMBDA m : m.conversation_id = cid)
    IN  [k \in 1..Len(rows) |-> [role |-> rows[k].role, content |-> rows[k].content,
                                 req |-> rows[k].req]]

\* a thread enters a store operation
Begin(c, call) ==
    /\ calls[c].pc = "idle"
    /\ nreq < MaxCalls
    /\ nreq' = nreq + 1
    /\ calls' = [calls EXCEPT ![c] = [call EXCEPT !.call = nreq + 1]]
    /\ UNCHANGED <<config, db_state, store, now, ask_state, outside_store>>

call_start_conversation(c) ==
    \E cid \in StoreIds, title \in Titles :
        Begin(c, [NoCall EXCEPT !.op = "start_conversation", !.pc = "create", !.cid = cid,
                                !.title = title])

call_add_message(c) ==
    \E cid \in StoreIds :
        Begin(c, [NoCall EXCEPT !.op = "add_message", !.pc = "select", !.cid = cid,
                                !.role = "user", !.content = <<"what is kaspa">>])

call_get_conversation_context(c) ==
    \E cid \in StoreIds, n \in ContextLimits :
        Begin(c, [NoCall EXCEPT !.op = "get_conversation_context", !.pc = "read", !.cid = cid,
                                !.limit = n])

call_delete_conversation(c) ==
    \E cid \in StoreIds :
        Begin(c, [NoCall EXCEPT !.op = "delete_conversation", !.pc = "delete", !.cid = cid])

\* conversation_manager.py:12-23 with database.py:53-65
CreateConversation(c) ==
    /\ calls[c].pc = "create"
    /\ \E t \in Times :
          /\ now' = t
          /\ conversations' = start_conversation(conversations, calls[c].user_id, calls[c].title,
                                                 calls[c].cid, t)
    /\ calls' = [calls EXCEPT ![c].pc = AfterStoreStep(calls[c], "create"),
                              ![c].post = [NoPost EXCEPT !.ok = TRUE, !.id = calls[c].cid]]
    /\ UNCHANGED <<config, db_state, messages, nreq, ask_state, outside_store>>

\* database.py:74-75: does the conversation have a row?
AddMessageSelect(c) ==
    /\ calls[c].pc = "select"
    /\ calls' = [calls EXCEPT ![c].pc = IF conversation_exists(conversations, calls[c].cid)
                                        THEN "insert" ELSE "heal"]
    /\ UNCHANGED <<config, db_state, store, now, nreq, ask_state, outside_store>>

\* database.py:76: create_conversation(conversation_id) on a connection of its own
AddMessageHeal(c) ==
    /\ calls[c].pc = "heal"
    /\ \E t \in Times :
          /\ now' = t
          /\ conversations' = create_conversation(conversations, calls[c].cid, <<>>, "None", t)
    /\ calls' = [calls EXCEPT ![c].pc = "insert", ![c].healed = TRUE]
    /\ UNCHANGED <<config, db_state, messages, nreq, ask_state, outside_store>>

\* database.py:79-93: INSERT the turn, UPDATE last_updated, commit
AddMessageInsert(c) ==
    /\ calls[c].pc = "insert"
    /\ \E t \in Times :
         \E u \in {t, Min(t + 1, MaxClock)} :
          LET msgs == add_message_messages(messages, calls[c].cid, calls[c].role,
                                           calls[c].content, <<>>, t, calls[c].call)
              convs == add_message_update(conversations, calls[c].cid, u)
          IN  /\ now' = u
              /\ messages' = msgs
              /\ conversations' = convs
              /\ calls' = [calls EXCEPT
                    ![c].pc = AfterStoreStep(calls[c], "insert"),
                    ![c].post = [@ EXCEPT !.ok = TRUE,
                                          !.exists = conversation_exists(convs, calls[c].cid),
                                          !.has_turn = HistoryHasTurn(msgs, calls[c].cid,
                                                                      calls[c].call,
                                                                      calls[c].role)]]
    /\ UNCHANGED <<config, db_state, nreq, ask_state, outside_store>>

\* conversation_manager.py:33-45 with database.py:98-121
ReadContext(c) ==
    /\ calls[c].pc = "read"
    /\ \E ctx \in get_conversation_context(messages, calls[c].cid, calls[c].limit) :
          calls' = [calls EXCEPT ![c].pc = AfterStoreStep(calls[c], "read"),
                                 ![c].post = [@ EXCEPT !.ok = TRUE, !.context = ctx,
                                                       !.history = AppendOrder(messages,
                                                                               calls[c].cid)]]
    /\ UNCHANGED <<config, db_state, store, now, nreq, ask_state, outside_store>>

\* database.py:177-188: both DELETEs, one commit
DeleteConversation(c) ==
    /\ calls[c].pc = "delete"
    /\ LET msgs == delete_conversation_messages(messages, calls[c].cid)
           convs == delete_conversation_conversations(conversations, calls[c].cid)
       IN  /\ messages' = msgs
           /\ conversations' = convs
           /\ calls' = [calls EXCEPT
                 ![c].pc = AfterStoreStep(calls[c], "delete"),
                 ![c].post = [NoPost EXCEPT
                                !.ok = TRUE,
                                !.exists = conversation_exists(convs, calls[c].cid),
                                !.history = AppendOrder(msgs, calls[c].cid),
                                !.removed = Len(messages) - Len(msgs)]]
    /\ UNCHANGED <<config, db_state, now, nreq, ask_state, outside_store>>

\* the caller has its result and leaves
Complete(c) ==
    /\ calls[c].pc = "returned"
    /\ calls' = [calls EXCEPT ![c] = NoCall]
    /\ UNCHANGED <<config, db_state, store, now, nreq, ask_state, outside_store>>

(***************************************************************************)
(* POST /ask on a worker thread: the store calls of ask_question in their  *)
(* order, with retrieval and generation as one step between the appends.   *)
(***************************************************************************)
\* conversation ids that callers of POST /ask supply: the known ones and the id of
\* another tweet's conversation (optimized_mention_bot.py:171-175)
CallerIds == ConvIds \cup {"conv-b"}

call_ask_question(c) ==
    \E given \in CallerIds \cup {NoId} :
        Begin(c, [NoCall EXCEPT !.op = "ask_question", !.pc = "ask_resolve", !.given = given,
                                !.role = "user", !.content = <<"what is kaspa">>,
                                !.limit = ContextMaxMessages])

\* api.py:84-93
AskResolve(c) ==
    /\ calls[c].pc = "ask_resolve"
    /\ calls' = [calls EXCEPT ![c].pc = "ask_ensure",
                              ![c].cid = ResolveConversationId(conversations, calls[c].given)]
    /\ UNCHANGED <<config, db_state, store, now, nreq, ask_state, outside_store>>

\* api.py:96-97
AskEnsure(c) ==
    /\ calls[c].pc = "ask_ensure"
    /\ calls' = [calls EXCEPT
          ![c] = IF conversation_exists(conversations, calls[c].cid)
                 THEN [@ EXCEPT !.pc = "read"]
                 ELSE [@ EXCEPT !.pc = "create", !.user_id = TempUser,
                                !.title = <<"Conversation", calls[c].cid>>]]
    /\ UNCHANGED <<config, db_state, store, now, nreq, ask_state, outside_store>>

\* api.py:141-224 decide whether `answer' and `citations' get a value
AnswerBound(hybrid, rag, web) ==
    NoResults(rag, web) \/ UseJudge(hybrid, rag, web) \/ TraditionalRagFlow(hybrid, web)

\* api.py:105-227: retrieval and generation; the turn to store, or UnboundLocalError
AskEvidence(c) ==
    /\ calls[c].pc = "ask_evidence"
    /\ \E rag \in {<<>>, LocalHits("qdrant", 1)},
          web \in IF USE_HYBRID THEN {<<>>, <<WebChunk>>} ELSE {<<>>} :
          calls' = [calls EXCEPT
             ![c] = IF AnswerBound(USE_HYBRID, rag, web)
                    THEN [@ EXCEPT !.pc = "select", !.role = "assistant",
                                   !.content = AnswerText]
                    ELSE [@ EXCEPT !.pc = "returned", !.post = [NoPost EXCEPT !.ok = FALSE]]]
    /\ UNCHANGED <<config, db_state, store, now, nreq, ask_state, outside_store>>

\* the steps inside the store's operations
StoreStep(c) ==
    \/ CreateConversation(c)
    \/ AddMessageSelect(c)
    \/ AddMessageHeal(c)
    \/ AddMessageInsert(c)
    \/ ReadContext(c)
    \/ DeleteConversation(c)
    \/ Complete(c)

\* threads calling the store's operations directly
NextStore ==
    \E c \in Clients :
        \/ call_start_conversation(c)
        \/ call_add_message(c)
        \/ call_get_conversation_context(c)
        \/ call_delete_conversation(c)
        \/ StoreStep(c)

\* threads serving POST /ask; no conversation is deleted meanwhile, so add_message
\* always finds the row that api.py:96-97 ensured
NextAsks ==
    \E c \in Clients :
        \/ call_ask_question(c)
        \/ AskResolve(c)
        \/ AskEnsure(c)
        \/ CreateConversation(c)
        \/ ReadContext(c)
        \/ AddMessageSelect(c)
        \/ AddMessageInsert(c)
        \/ AskEvidence(c)
        \/ Complete(c)

\* the default configuration of api.py:19-21
InitStore == Init /\ USE_HYBRID /\ vector_db = "qdrant"

SpecStore == InitStore /\ [][NextStore]_vars

SpecAsks == InitStore /\ [][NextAsks]_vars

(***************************************************************************)
(* Properties of the store under concurrent callers.                       *)
(***************************************************************************)
\* the stored turns of a role written by call n
TurnsOfCall(n, role) ==
    {i \in 1..Len(messages) : messages[i].req = n /\ messages[i].role = role}

ReturnedFrom(c, op) == calls[c].op = op /\ calls[c].pc = "returned"

\* C13: every ask_question call that has returned, whatever ran beside it, has put
\* exactly its own user turn and its own assistant turn into the store
C13_EachCallStoresItsTurns ==
    \A c \in Clients :
        ReturnedFrom(c, "ask_question")
            => /\ Cardinality(TurnsOfCall(calls[c].call, "user")) = 1
               /\ Cardinality(TurnsOfCall(calls[c].call, "assistant")) = 1
               /\ \A i \in TurnsOfCall(calls[c].call, "user") \cup
                           TurnsOfCall(calls[c].call, "assistant") :
                      messages[i].conversation_id = calls[c].cid

\* C14: a start_conversation call returns the id it was given; on an id that has a
\* record it leaves the record as the first creation made it, and on a new id it
\* stores one record with its own title and user
C14_CreateTwiceKeepsFirst ==
    [][\A c \in Clients :
         (calls[c].op = "start_conversation" /\ calls[c].pc = "create"
             /\ calls'[c].pc = "returned")
            => LET cid == calls[c].cid
               IN  /\ calls'[c].post.id = cid
                   /\ conversation_exists(conversations', cid)
                   /\ conversation_exists(conversations, cid)
                        => conversations'[cid] = conversations[cid]
                   /\ ~conversation_exists(conversations, cid)
                        => /\ conversations'[cid].title = calls[c].title
                           /\ conversations'[cid].user_id = calls[c].user_id
                           /\ conversations'[cid].created_at = now'
                   /\ DOMAIN conversations' = DOMAIN conversations \cup {cid}]_vars

\* two threads have created the same id with different titles
C14_Witness ==
    \E c, d \in Clients :
        /\ c # d
        /\ ReturnedFrom(c, "start_conversation")
        /\ ReturnedFrom(d, "start_conversation")
        /\ calls[c].cid = calls[d].cid
        /\ calls[c].title # calls[d].title
        /\ conversation_exists(conversations, calls[c].cid)
        /\ conversations[calls[c].cid].title = calls[c].title

\* C15: an add_message that found no record for its id and returned true has left
\* the record in place and its turn in the history of the id
C15_AppendCreatesConversation ==
    \A c \in Clients :
        (ReturnedFrom(c, "add_message") /\ calls[c].healed /\ calls[c].post.ok)
            => /\ calls[c].post.exists
               /\ calls[c].post.has_turn

PosIn(seq, x) == CHOOSE i \in 1..Len(seq) : seq[i] = x

\* C16: get_conversation_context(id, N) returns at most N entries, each a stored turn
\* of id, in the order in which the turns were appended
C16_ContextInAppendOrder ==
    \A c \in Clients :
        ReturnedFrom(c, "get_conversation_context")
            => LET ctx == calls[c].post.context
                   appended == calls[c].post.history
               IN  /\ Len(ctx) <= calls[c].limit
                   /\ \A k \in 1..Len(ctx) : \E i \in 1..Len(appended) : appended[i] = ctx[k]
                   /\ \A j, k \in 1..Len(ctx) :
                         j < k => PosIn(appended, ctx[j]) < PosIn(appended, ctx[k])

TurnsOf(msgs, cid) == {i \in 1..Len(msgs) : msgs[i].conversation_id = cid}

\* C17: delete_conversation removes the record and every turn of the id in one step:
\* when it returns true the id has no record and no turn, and no step removes the
\* record without the turns or turns without the record
C17_DeleteIsOneStep ==
    [][/\ \A c \in Clients :
            (calls[c].pc = "delete" /\ calls'[c].pc = "returned" /\ calls'[c].post.ok)
               => /\ ~conversation_exists(conversations', calls[c].cid)
                  /\ TurnsOf(messages', calls[c].cid) = {}
                  /\ ~calls'[c].post.exists
                  /\ calls'[c].post.history = <<>>
       /\ \A cid \in ConvIds :
            /\ (conversation_exists(conversations, cid)
                    /\ ~conversation_exists(conversations', cid))
                 => TurnsOf(messages', cid) = {}
            /\ Cardinality(TurnsOf(messages', cid)) < Cardinality(TurnsOf(messages, cid))
                 => /\ ~conversation_exists(conversations', cid)
                    /\ TurnsOf(messages', cid) = {}]_vars

\* a delete has returned that removed the record and at least one turn
C17_Witness ==
    \E c \in Clients :
        /\ ReturnedFrom(c, "delete_conversation")
        /\ calls[c].post.ok
        /\ calls[c].post.removed > 0
        /\ ~conversation_exists(conversations, calls[c].cid)

\* C18: the last_updated of an existing conversation is never older than the
\* timestamp of one of its turns
C18_LastUpdatedCoversTurns ==
    \A cid \in DOMAIN conversations :
        \A i \in TurnsOf(messages, cid) :
            conversations[cid].last_updated >= messages[i].timestamp

\* an add_message has returned whose turn is younger than the conversation's creation
C18_Witness ==
    \E c \in Clients :
        /\ ReturnedFrom(c, "add_message")
        /\ calls[c].post.ok
        /\ conversation_exists(conversations, calls[c].cid)
        /\ \E i \in TurnsOfCall(calls[c].call, "user") :
              /\ messages[i].timestamp > conversations[calls[c].cid].created_at
              /\ conversations[calls[c].cid].last_updated >= messages[i].timestamp

(***************************************************************************)
(* fetch_web_chunks called on its own (gemini_search.py:47-140): the       *)
(* caller passes k, the service does one of the things of WebInputs.       *)
(***************************************************************************)
\* longest JSON list the service returns
WebMaxItems == 3
\* largest k a caller passes
WebMaxK == 3

RECURSIVE ItemLists(_)
ItemLists(n) ==
    IF n = 0 THEN { <<>> }
    ELSE ItemLists(n - 1)
            \cup { Append(l, x) : l \in { m \in ItemLists(n - 1) : Len(m) = n - 1 },
                                  x \in {"object", "string"} }

\* what the service does for one call: no API key, an error of generate_content, or
\* a text that is empty, no JSON, JSON but no list, or a JSON list
WebInputs ==
    { [kind |-> k, json |-> "", items |-> <<>>] : k \in {"no_key", "api_error"} }
        \cup { [kind |-> "text", json |-> j, items |-> <<>>] : j \in {"empty", "invalid", "nonlist"} }
        \cup { [kind |-> "text", json |-> "list", items |-> l] : l \in ItemLists(WebMaxItems) }

\* gemini_search.py:47, entry of fetch_web_chunks(query, k)
call_fetch_web_chunks ==
    /\ web_call.pc \in {"idle", "returned", "raised"}
    /\ \E resp \in WebInputs : \E k \in 0..WebMaxK :
          web_call' = [pc |-> "called", resp |-> resp, k |-> k, chunks |-> <<>>]
    /\ UNCHANGED <<config, db_state, store, now, nreq, ask_state, calls, outside_web>>

\* gemini_search.py:52-140, the body: _client() raises, or the chunks are returned
FetchWebChunks ==
    /\ web_call.pc = "called"
    /\ web_call' =
          IF fetch_web_chunks_raises(web_call.resp)
          THEN [web_call EXCEPT !.pc = "raised"]
          ELSE [web_call EXCEPT !.pc = "returned",
                                !.chunks = fetch_web_chunks(web_call.resp, web_call.k)]
    /\ UNCHANGED <<config, db_state, store, now, nreq, ask_state, calls, outside_web>>

NextWeb == call_fetch_web_chunks \/ FetchWebChunks

SpecWeb == InitStore /\ [][NextWeb]_vars

\* the service was unavailable or failed during the call that has ended
ServiceFailed == web_call.resp.kind \in {"no_key", "api_error"}

\* C19: a call of fetch_web_chunks during which the service is unavailable or errors
\* does not raise, it returns exactly one synthetic chunk that describes the failure
C19_ServiceFailureGivesOneChunk ==
    (web_call.pc \in {"returned", "raised"} /\ ServiceFailed)
        => (web_call.pc = "returned" /\ web_call.chunks = <<SyntheticChunk>>)

\* the text is a JSON list whose items are all objects
ListOfObjects(resp) ==
    /\ resp.json = "list"
    /\ \A i \in 1..Len(resp.items) : resp.items[i] = "object"

\* C20: when the service returns a non-empty text that does not parse as a list of
\* objects, the call returns exactly one chunk, the whole raw text with score 1.0
C20_UnparseableTextGivesRawChunk ==
    ( /\ web_call.pc = "returned"
      /\ web_call.resp.kind = "text"
      /\ web_call.resp.json # "empty"
      /\ ~ListOfObjects(web_call.resp) )
        => web_call.chunks = <<RawChunk>>

\* C21: a call fetch_web_chunks(query, k) that returns, returns at most k chunks
C21_AtMostKChunks ==
    web_call.pc = "returned" => Len(web_call.chunks) <= web_call.k

(***************************************************************************)
(* The local retriever: retrieve on the in-process flat index              *)
(* (core.py:338-417) and retrieve_from_qdrant on the remote store          *)
(* (qdrant_retrieval.py:15-40), both asked the same query on the same      *)
(* index contents.                                                         *)
(***************************************************************************)
\* most rows in the index
MaxIndex == 2
\* largest distance between the query and a row
MaxDistance == 1
\* largest k a caller passes
MaxTopK == 2

\* core.py:355-357, the terms that occur in the rows below
protocol_terms == {"knight", "k-colouring", "umc-voting", "ghostdag", "phantom", "algorithm", "procedure"}
mechanism_terms == {"tie-breaking", "consensus", "safety", "liveness", "cluster", "excessive rank", "natural rank"}
precision_terms == {"returns", "ensures", "prevents", "selects", "validates", "determines"}

\* rows of the metadata table / payloads of the collection; the last one has no text
Rows ==
    { [id |-> "knight_note", content |-> <<"KNIGHT">>, source |-> "kaspa_x_twitter"],
      [id |-> "whitepaper_rule", content |-> <<"consensus", "ensures">>, source |-> "whitepaper"],
      [id |-> "safety_note", content |-> <<"safety">>, source |-> "whitepaper"],
      [id |-> "plain", content |-> <<"kaspa">>, source |-> "kasparchive"],
      [id |-> "blank", content |-> <<>>, source |-> "kasparchive"] }

\* the words a query can hold that the boosts look at
Queries == SUBSET {"knight", "safety"}

\* str.lower() on the words used here
lower(w) == IF w = "KNIGHT" THEN "knight" ELSE w
\* the terms of a set that occur in the lower-cased content
TermsIn(content, terms) == { lower(content[i]) : i \in DOMAIN content } \cap terms

\* core.py:371-392, the six conditions and their multipliers, in tenths
BoostConditions(row, query) ==
    { c \in 1..6 :
        \/ c = 1 /\ TermsIn(row.content, protocol_terms) # {}
        \/ c = 2 /\ TermsIn(row.content, mechanism_terms) # {}
        \/ c = 3 /\ TermsIn(row.content, precision_terms) # {}
        \/ c = 4 /\ row.source = "whitepaper"
        \/ c = 5 /\ "knight" \in query /\ TermsIn(row.content, {"knight"}) # {}
        \/ c = 6 /\ query \cap {"safety", "liveness"} # {}
                 /\ TermsIn(row.content, {"safety", "liveness"}) # {} }

Multiplier == <<16, 14, 13, 15, 18, 17>>

RECURSIVE BoostOver(_, _)
\* boost, times 10^6: a condition that holds contributes its multiplier, the others 10
BoostOver(conds, c) ==
    IF c = 0 THEN 1
    ELSE BoostOver(conds, c - 1) * (IF c \in conds THEN Multiplier[c] ELSE 10)

boost(row, query) == BoostOver(BoostConditions(row, query), 6)

\* core.py:362 and 394: final_score = boost / (1 + distance), kept as a fraction
final_score(row, query, d) == [num |-> boost(row, query), den |-> 1 + d]
ScoreLess(a, b) == a.num * b.den < b.num * a.den

\* core.py:396-405
Candidate(row, query, d) ==
    [content |-> row.content, source |-> row.source, id |-> row.id, distance |-> d,
     score |-> final_score(row, query, d),
     keys |-> {"content", "source", "section", "id", "distance", "score", "url", "filename"}]

\* a ranking that leaves the candidates in the order of the search
InsertInSearchOrder(sorted, c) == Append(sorted, c)

\* list.sort(key=score, reverse=True) is stable: equal scores keep the search order
RECURSIVE InsertByScore(_, _)
InsertByScore(sorted, c) ==
    IF sorted = <<>> THEN <<c>>
    ELSE IF ScoreLess(Head(sorted).score, c.score) THEN <<c>> \o sorted
    ELSE <<Head(sorted)>> \o InsertByScore(Tail(sorted), c)

RECURSIVE SortByScore(_, _)
SortByScore(sorted, rest) ==
    IF rest = <<>> THEN sorted
    ELSE SortByScore(InsertByScore(sorted, Head(rest)), Tail(rest))

\* core.py:412-415: result.copy() without the score
StripScore(c) == [c EXCEPT !.score = [num |-> 0, den |-> 1], !.keys = @ \ {"score"}]

\* the n nearest rows in the order the index reports them: by distance, rows at the
\* same distance in an order the index chooses
NearestOrders(index, dist, n) ==
    { o \in [1..n -> index] :
        /\ \A i, j \in 1..n : i < j => (o[i] # o[j] /\ dist[o[i].id] <= dist[o[j].id])
        /\ \A r \in index : (\A i \in 1..n : o[i] # r) =>
                                \A i \in 1..n : dist[o[i].id] <= dist[r.id] }

\* core.py:347-417 after the search returned the rows of order
retrieve(order, dist, query, k) ==
    LET candidate_results == [i \in 1..Len(order) |-> Candidate(order[i], query, dist[order[i].id])]
        ranked == SortByScore(<<>>, candidate_results)
    IN  [i \in 1..Min(k, Len(ranked)) |-> StripScore(ranked[i])]

\* the similarity the remote store reports for a row: larger when nearer
Similarity(d) == [num |-> 1, den |-> 1 + d]

\* qdrant_retrieval.py:28-38, one formatted hit
FormattedHit(row, d) ==
    [content |-> row.content, source |-> row.source, id |-> "", distance |-> 0,
     score |-> Similarity(d),
     keys |-> {"content", "source", "section", "filename", "url", "score"}]

\* qdrant_retrieval.py:25-40 after the search returned the rows of order
retrieve_from_qdrant(order, dist) ==
    [i \in 1..Len(order) |-> FormattedHit(order[i], dist[order[i].id])]

\* the index contents a query can meet
Indexes == { ix \in SUBSET Rows : Cardinality(ix) <= MaxIndex }

\* a caller puts one query with one k to both backends
call_retrieve ==
    /\ retrieval.pc = "idle"
    /\ \E ix \in Indexes : \E dist \in [{r.id : r \in ix} -> 0..MaxDistance] :
       \E query \in Queries : \E k \in 0..MaxTopK : \E e \in {"ok", "error"} :
          retrieval' = [pc |-> "called", index |-> ix, dist |-> dist, query |-> query, k |-> k,
                        embedding |-> e, flat |-> [pc |-> "called", chunks |-> <<>>],
                        qdrant |-> [pc |-> "called", chunks |-> <<>>]]
    /\ UNCHANGED <<config, db_state, store, now, nreq, ask_state, calls, web_call, bot_vars>>

\* core.py:338-417. The embedding call raises when the service errors; a search for
\* zero neighbours is rejected by some builds of the index library and answered
\* with no row by others
Retrieve ==
    /\ retrieval.flat.pc = "called"
    /\ LET search_k == Min(retrieval.k * 4, Cardinality(retrieval.index))
       IN  \/ /\ retrieval.embedding = "error" \/ search_k = 0
              /\ retrieval' = [retrieval EXCEPT !.flat = [pc |-> "raised", chunks |-> <<>>]]
           \/ /\ retrieval.embedding = "ok"
              /\ \E order \in NearestOrders(retrieval.index, retrieval.dist, search_k) :
                    retrieval' = [retrieval EXCEPT !.flat =
                        [pc |-> "returned",
                         chunks |-> retrieve(order, retrieval.dist, retrieval.query, retrieval.k)]]
    /\ UNCHANGED <<config, db_state, store, now, nreq, ask_state, calls, web_call, bot_vars>>

\* qdrant_retrieval.py:15-40 with search_embedding (qdrant_utils.py:50-59): the
\* store returns the top_k nearest points; a limit of zero is rejected by some
\* versions of the store and answered with no point by others
RetrieveFromQdrant ==
    /\ retrieval.qdrant.pc = "called"
    /\ LET top_k == Min(retrieval.k, Cardinality(retrieval.index))
       IN  \/ /\ retrieval.embedding = "error" \/ retrieval.k = 0
              /\ retrieval' = [retrieval EXCEPT !.qdrant = [pc |-> "raised", chunks |-> <<>>]]
           \/ /\ retrieval.embedding = "ok"
              /\ \E order \in NearestOrders(retrieval.index, retrieval.dist, top_k) :
                    retrieval' = [retrieval EXCEPT !.qdrant =
                        [pc |-> "returned", chunks |-> retrieve_from_qdrant(order, retrieval.dist)]]
    /\ UNCHANGED <<config, db_state, store, now, nreq, ask_state, calls, web_call, bot_vars>>

\* both backends have answered and the caller has taken the results
RetrievalDone ==
    /\ retrieval.flat.pc \in {"returned", "raised"}
    /\ retrieval.qdrant.pc \in {"returned", "raised"}
    /\ retrieval' = NoRetrieval
    /\ UNCHANGED <<config, db_state, store, now, nreq, ask_state, calls, web_call, bot_vars>>

NextRetrieve == call_retrieve \/ Retrieve \/ RetrieveFromQdrant \/ RetrievalDone

SpecRetrieve == InitStore /\ [][NextRetrieve]_vars

\* the chunks a backend returned are at most k and all have text
WithinContract(backend) ==
    backend.pc = "returned" =>
        /\ Len(backend.chunks) <= retrieval.k
        /\ \A i \in 1..Len(backend.chunks) : backend.chunks[i].content # <<>>

\* C22: both backends of the local retriever return at most k chunks, each with
\* non-empty content
C22_AtMostKNonEmptyChunks == WithinContract(retrieval.flat) /\ WithinContract(retrieval.qdrant)

\* the boost conditions that a returned chunk satisfied for the query
ConditionsOf(chunk) ==
    BoostConditions(CHOOSE r \in Rows : r.id = chunk.id, retrieval.query)

\* C23 as stated: of two returned candidates at the same distance, the one that
\* satisfies more of the six boost conditions is ranked before the other
C23_MoreConditionsRankFirst ==
    retrieval.flat.pc = "returned" =>
        \A i, j \in 1..Len(retrieval.flat.chunks) :
            LET a == retrieval.flat.chunks[i]
                b == retrieval.flat.chunks[j]
            IN  (a.distance = b.distance
                    /\ Cardinality(ConditionsOf(a)) > Cardinality(ConditionsOf(b))) => i < j

\* C23, amended: of two returned candidates at the same distance, one that satisfies
\* every boost condition of the other and at least one more is ranked before it, and
\* so is one whose multipliers have the larger product
C23_LargerBoostRanksFirst ==
    retrieval.flat.pc = "returned" =>
        \A i, j \in 1..Len(retrieval.flat.chunks) :
            LET a == retrieval.flat.chunks[i]
                b == retrieval.flat.chunks[j]
                more == ConditionsOf(b) \subseteq ConditionsOf(a) /\ ConditionsOf(a) # ConditionsOf(b)
                larger == BoostOver(ConditionsOf(a), 6) > BoostOver(ConditionsOf(b), 6)
            IN  (a.distance = b.distance /\ (more \/ larger)) => i < j

\* retrieve has returned two chunks at the same distance, the first satisfying the
\* conditions of the second and one more
C23_Witness ==
    /\ retrieval.flat.pc = "returned"
    /\ Len(retrieval.flat.chunks) >= 2
    /\ LET a == retrieval.flat.chunks[1]
           b == retrieval.flat.chunks[2]
       IN  /\ a.distance = b.distance
           /\ ConditionsOf(b) \subseteq ConditionsOf(a)
           /\ ConditionsOf(a) # ConditionsOf(b)
           /\ ConditionsOf(b) # {}

\* C24: on the same index contents, query and k the two backends return the same
\* ranked sequence of chunks with the same fields
C24_BackendsAgree ==
    (retrieval.flat.pc = "returned" /\ retrieval.qdrant.pc = "returned")
        => retrieval.flat.chunks = retrieval.qdrant.chunks

(***************************************************************************)
(* The Twitter bot: TwitterBotManager (twitter_bot_integration.py),        *)
(* TwitterBot (optimized_mention_bot.py) and DatabaseQueueManager          *)
(* (queue_manager.py).  Every database call is one transaction and one     *)
(* step; a write can fail, which the queue manager answers with False.     *)
(***************************************************************************)
outside_bot == <<config, db_state, store, now, nreq, ask_state, calls, web_call, retrieval>>

\* queue_manager.py:326-349, update_rate_limit_data; ok is whether the write succeeds
update_rate_limit_data(db, data, ok) ==
    IF ok THEN [db EXCEPT !.twitter_rate_limits = data] ELSE db

\* queue_manager.py:72-103, add_response: FALSE when the row exists or the write fails
add_response_ok(db, m, ok) == ok /\ ~db.twitter_queue[m].present
add_response(db, m, response_text, priority, ok) ==
    IF add_response_ok(db, m, ok)
    THEN [db EXCEPT !.twitter_queue[m] = [present |-> TRUE, response_text |-> response_text,
                                          priority |-> priority, id |-> db.next_id,
                                          posted |-> FALSE, success |-> "null"],
                    !.next_id = @ + 1]
    ELSE db

\* queue_manager.py:264-280, add_processed_mention
add_processed_mention(db, m, ok) ==
    IF ok THEN [db EXCEPT !.processed_mentions = @ \cup {m}] ELSE db

\* queue_manager.py:180-203, mark_posted: SET posted = TRUE, success = ?
mark_posted(db, m, success, ok) ==
    IF ok /\ db.twitter_queue[m].present
    THEN [db EXCEPT !.twitter_queue[m].posted = TRUE,
                    !.twitter_queue[m].success = IF success THEN "true" ELSE "false"]
    ELSE db

\* queue_manager.py:233-246 and 248-262
clear_pending_responses(db) ==
    [db EXCEPT !.twitter_queue =
        [m \in Mentions |-> IF @[m].present /\ ~@[m].posted THEN NoRow ELSE @[m]]]
clear_all_responses(db) == [db EXCEPT !.twitter_queue = [m \in Mentions |-> NoRow]]

\* rows WHERE posted = FALSE
Pending(db) == { m \in Mentions : db.twitter_queue[m].present /\ ~db.twitter_queue[m].posted }

\* ORDER BY priority DESC, queued_at ASC: a comes before b
QueuedBefore(db, a, b) ==
    \/ db.twitter_queue[a].priority > db.twitter_queue[b].priority
    \/ /\ db.twitter_queue[a].priority = db.twitter_queue[b].priority
       /\ db.twitter_queue[a].id < db.twitter_queue[b].id

RECURSIVE InQueueOrder(_, _)
InQueueOrder(db, ms) ==
    IF ms = {} THEN <<>>
    ELSE LET first == CHOOSE a \in ms : \A b \in ms \ {a} : QueuedBefore(db, a, b)
         IN  <<first>> \o InQueueOrder(db, ms \ {first})

\* queue_manager.py:105-140, get_next_responses(count)
get_next_responses(db, count) ==
    LET all == InQueueOrder(db, Pending(db))
    IN  SubSeq(all, 1, Min(count, Len(all)))

\* optimized_mention_bot.py:80-92, can_post: the data after the reset it may do
AfterCanPost(data, t) ==
    IF t - data.last_post_reset >= POST_WINDOW
    THEN [data EXCEPT !.posts_today = 0, !.last_post_reset = t]
    ELSE data
can_post(data, t) == AfterCanPost(data, t).posts_today < POST_RATE_LIMIT

\* optimized_mention_bot.py:104-114
get_posts_remaining(data, t) ==
    IF t - data.last_post_reset >= POST_WINDOW THEN POST_RATE_LIMIT
    ELSE IF POST_RATE_LIMIT - data.posts_today > 0 THEN POST_RATE_LIMIT - data.posts_today ELSE 0

\* the mentions of a set as the list the search returns
RECURSIVE AsList(_)
AsList(ms) ==
    IF ms = {} THEN <<>>
    ELSE LET m == CHOOSE a \in ms : \A b \in ms : a <= b IN <<m>> \o AsList(ms \ {m})

ManagerCall == bot_manager.ncalls < MaxManagerCalls

\* the outcomes of n database writes: each succeeds or fails
WriteOutcomes(n) ==
    { w \in [1..n -> BOOLEAN] :
        twitter.failures + Cardinality({i \in 1..n : ~w[i]}) <= MaxWriteFailures }
Failed(w) == Cardinality({i \in DOMAIN w : ~w[i]})

\* optimized_mention_bot.py:558, priority = 1 if question else 0; the first mention
\* holds a question, the others only greet
Priority(m) == IF m = 1 THEN 1 ELSE 0

\* twitter_bot_integration.py:36-90, start_bot with the credentials set: a new
\* TwitterBot, whose tracker loads the rate-limit row, in a new thread
start_bot ==
    /\ ManagerCall
    /\ ~bot_manager.is_running
    /\ \E t \in Threads :
        /\ bot_threads[t].pc = "unborn"
        /\ \A u \in Threads : bot_threads[u].pc = "unborn" => t <= u
        /\ bot_threads' = [bot_threads EXCEPT ![t] =
                [Unborn EXCEPT !.pc = "search", !.data = db_queue.twitter_rate_limits]]
        /\ bot_manager' = [is_running |-> TRUE, bot |-> t, bot_thread |-> t,
                           ncalls |-> bot_manager.ncalls + 1]
    /\ UNCHANGED <<outside_bot, db_queue, twitter>>

\* twitter_bot_integration.py:92-119, stop_bot: the flag is cleared and join(timeout=5)
\* returns; TwitterBot.run never reads the flag
stop_bot ==
    /\ ManagerCall
    /\ bot_manager.is_running
    /\ bot_manager' = [bot_manager EXCEPT !.is_running = FALSE, !.ncalls = @ + 1]
    /\ UNCHANGED <<outside_bot, bot_threads, db_queue, twitter>>

\* twitter_bot_integration.py:205-227
clear_queue ==
    /\ ManagerCall
    /\ bot_manager.bot # 0
    /\ db_queue' = clear_pending_responses(db_queue)
    /\ bot_manager' = [bot_manager EXCEPT !.ncalls = @ + 1]
    /\ UNCHANGED <<outside_bot, bot_threads, twitter>>

\* twitter_bot_integration.py:271-287
clear_interactions ==
    /\ ManagerCall
    /\ db_queue' = clear_all_responses(db_queue)
    /\ bot_manager' = [bot_manager EXCEPT !.ncalls = @ + 1]
    /\ UNCHANGED <<outside_bot, bot_threads, twitter>>

\* time passes
Tick ==
    /\ twitter.clock < POST_WINDOW + MaxTicks
    /\ twitter' = [twitter EXCEPT !.clock = @ + 1]
    /\ UNCHANGED <<outside_bot, bot_manager, bot_threads, db_queue>>

\* optimized_mention_bot.py:311-353 at the start of run_cycle (450-459): the search
\* is refused or fails and gives no mention, or it returns found and is recorded
SearchMentions(t, found) ==
    /\ bot_threads[t].pc = "search"
    /\ twitter.cycles < MaxCycles
    /\ \E answered \in BOOLEAN : \E w \in WriteOutcomes(1) :
        LET data == IF answered THEN [bot_threads[t].data EXCEPT !.last_search_time = twitter.clock]
                    ELSE bot_threads[t].data
            mentions == IF answered THEN AsList(found) ELSE <<>>
        IN  /\ bot_threads' = [bot_threads EXCEPT ![t] =
                    [@ EXCEPT !.pc = IF mentions = <<>> THEN "queue" ELSE "mentions",
                              !.data = data, !.mentions = mentions,
                              !.began_stopped = ~bot_manager.is_running]]
            /\ db_queue' = IF answered THEN update_rate_limit_data(db_queue, data, w[1]) ELSE db_queue
            /\ twitter' = [twitter EXCEPT !.cycles = @ + 1,
                                          !.failures = IF answered THEN @ + Failed(w) ELSE @]
    /\ UNCHANGED <<outside_bot, bot_manager>>

\* optimized_mention_bot.py:481-572, one pass of the loop over the mentions
ProcessMention(t) ==
    /\ bot_threads[t].pc = "mentions"
    /\ LET m == Head(bot_threads[t].mentions)
           rest == Tail(bot_threads[t].mentions)
           next == [bot_threads EXCEPT ![t] =
                        [@ EXCEPT !.mentions = rest, !.pc = IF rest = <<>> THEN "queue" ELSE "mentions"]]
       IN  /\ bot_threads' = next
           /\ IF m \in db_queue.processed_mentions
              THEN UNCHANGED <<db_queue, twitter>>
              ELSE \E ai \in {"answer", "unavailable"} : \E ai_response \in AnswerLengths :
                   \E w \in WriteOutcomes(2) :
                        \* the writes made: one when the AI is unavailable or
                        \* add_response returns False, two otherwise
                        LET one == ai = "unavailable" \/ ~add_response_ok(db_queue, m, w[1])
                        IN  /\ one => w[2] /\ ai_response = TweetLimit
                            /\ ai = "answer" /\ db_queue.twitter_queue[m].present => w[1]
                            /\ db_queue' =
                                  IF ai = "unavailable" THEN add_processed_mention(db_queue, m, w[1])
                                  ELSE IF one THEN db_queue
                                  ELSE add_processed_mention(
                                          add_response(db_queue, m, ai_response, Priority(m), w[1]), m, w[2])
                            /\ twitter' = [twitter EXCEPT !.asked[m] = Min(@ + 1, MaxReplies),
                                                          !.failures = @ + Failed(w)]
    /\ UNCHANGED <<outside_bot, bot_manager>>

\* optimized_mention_bot.py:394-411, the head of process_queue
ProcessQueue(t) ==
    /\ bot_threads[t].pc = "queue"
    /\ LET data == AfterCanPost(bot_threads[t].data, twitter.clock)
           responses_to_post ==
                IF can_post(bot_threads[t].data, twitter.clock)
                THEN get_next_responses(db_queue, get_posts_remaining(data, twitter.clock))
                ELSE <<>>
       IN  bot_threads' = [bot_threads EXCEPT ![t] =
                [@ EXCEPT !.data = data, !.to_post = responses_to_post,
                          !.pc = IF responses_to_post = <<>> THEN "search" ELSE "post"]]
    /\ UNCHANGED <<outside_bot, bot_manager, db_queue, twitter>>

\* optimized_mention_bot.py:355-392, post_tweet from process_queue (420): on 201 the
\* reply exists and record_post counts and saves it
PostTweet(t) ==
    /\ bot_threads[t].pc = "post"
    /\ LET m == Head(bot_threads[t].to_post)
       IN  /\ Len(twitter.replies[m]) < MaxReplies
           /\ \E created \in BOOLEAN : \E w \in WriteOutcomes(1) :
                LET data == IF created THEN [bot_threads[t].data EXCEPT !.posts_today = @ + 1]
                            ELSE bot_threads[t].data
                IN  /\ bot_threads' = [bot_threads EXCEPT ![t] =
                            [@ EXCEPT !.pc = "mark", !.data = data,
                                      !.result = IF created THEN "created" ELSE "failed"]]
                    /\ created \/ w[1]
                    /\ twitter' = IF created
                                  THEN [twitter EXCEPT !.replies[m] = Append(@, twitter.clock),
                                                       !.attempted = @ \cup {m},
                                                       !.failures = @ + Failed(w)]
                                  ELSE [twitter EXCEPT !.attempted = @ \cup {m}]
                    /\ db_queue' = IF created THEN update_rate_limit_data(db_queue, data, w[1])
                                   ELSE db_queue
    /\ UNCHANGED <<outside_bot, bot_manager>>

\* optimized_mention_bot.py:422-447, the mark_posted after the attempt, then the next
\* response or the end of the cycle and the sleep (run, 633-643)
MarkPosted(t) ==
    /\ bot_threads[t].pc = "mark"
    /\ LET m == Head(bot_threads[t].to_post)
           rest == Tail(bot_threads[t].to_post)
       IN  /\ \E w \in WriteOutcomes(1) :
                /\ db_queue' = mark_posted(db_queue, m, bot_threads[t].result = "created", w[1])
                /\ twitter' = [twitter EXCEPT !.failures = @ + Failed(w)]
           /\ bot_threads' = [bot_threads EXCEPT ![t] =
                    [@ EXCEPT !.to_post = rest, !.result = "none",
                              !.pc = IF rest = <<>> THEN "search" ELSE "post"]]
    /\ UNCHANGED <<outside_bot, bot_manager>>

\* the mentions that exist while the calls of the manager are explored
ManagedMentions == {1}

NextBot ==
    \/ start_bot \/ stop_bot \/ clear_queue \/ clear_interactions \/ Tick
    \/ \E t \in Threads :
        \/ \E found \in SUBSET ManagedMentions : SearchMentions(t, found)
        \/ ProcessMention(t) \/ ProcessQueue(t) \/ PostTweet(t) \/ MarkPosted(t)

InitBot == InitCore /\ USE_HYBRID /\ vector_db = "qdrant" /\ \E n \in EarlierPosts : InitBotWith(n)

SpecBot == InitBot /\ [][NextBot]_vars

\* C25: no mention id has more than one successfully posted reply
C25_NoDuplicateReplies == \A m \in Mentions : Len(twitter.replies[m]) <= 1

\* replies posted at the times from t up to, not including, t + POST_WINDOW
PostedInWindow(t) ==
    LET InWindow(u) == t <= u /\ u < t + POST_WINDOW
        new == { <<m, i>> \in Mentions \X (1..MaxReplies) :
                    i <= Len(twitter.replies[m]) /\ InWindow(twitter.replies[m][i]) }
    IN  Cardinality(new) + (IF InWindow(POST_WINDOW) THEN twitter.earlier ELSE 0)

\* C26: at most 17 replies are posted in any window of 24 hours
C26_SeventeenPerWindow ==
    \A t \in 1..(POST_WINDOW + MaxTicks) : PostedInWindow(t) <= DailyPostLimit

\* C28: a response whose post attempt failed stays pending, posted = FALSE
C28_FailedPostStaysPending ==
    \A m \in Mentions :
        (db_queue.twitter_queue[m].present /\ db_queue.twitter_queue[m].success = "false")
            => ~db_queue.twitter_queue[m].posted

\* C29: no thread begins a cycle after stop_bot returned success and before the
\* next start_bot
C29_NoCycleAfterStop == \A t \in Threads : ~bot_threads[t].began_stopped

\* C30: at most one bot thread is alive and executing cycles
C30_OneBotThread == Cardinality({ t \in Threads : bot_threads[t].pc # "unborn" }) <= 1

\* literal URLs and names of evidence-source categories, as tokens of an answer
SourceTokens == {"https://kaspa.org", "RAG", "(RAG)", "Web", "(Web)", "web_search"}

\* C27: the answer returned on the dual-source path holds no literal URL and no
\* evidence-source category name
C27_NoSourcesInFusedAnswer ==
    (pc = "done" /\ response.status = "ok" /\ outcome.judge # "none")
        => \A i \in 1..Len(response.answer) : response.answer[i] \notin SourceTokens

\* C31: every response text in the posting queue is at most 280 characters long
C31_QueuedTextFitsTweet ==
    \A m \in Mentions :
        db_queue.twitter_queue[m].present => db_queue.twitter_queue[m].response_text <= TweetLimit

(***************************************************************************)
(* The bot with every mention in reach of the search, without the calls    *)
(* that clear the queue and within one window.                             *)
(***************************************************************************)
NextQueue ==
    \/ start_bot \/ stop_bot
    \/ \E t \in Threads :
        \/ \E found \in SUBSET Mentions : SearchMentions(t, found)
        \/ ProcessMention(t) \/ ProcessQueue(t) \/ PostTweet(t) \/ MarkPosted(t)

InitQueue == InitCore /\ USE_HYBRID /\ vector_db = "qdrant" /\ InitBotWith(0)

SpecQueue == InitQueue /\ [][NextQueue]_vars

\* C32: when post_tweet is called for a response, no pending response that comes
\* before it in priority order (higher priority, or equal priority and queued
\* earlier) is still waiting for its first attempt
C32_PostsInPriorityOrder ==
    [][\A t \in Threads :
         (bot_threads[t].pc = "post" /\ bot_threads'[t].pc = "mark") =>
            LET m == Head(bot_threads[t].to_post)
            IN  \A o \in Pending(db_queue) \ (twitter.attempted \cup {m}) :
                    ~QueuedBefore(db_queue, o, m)]_vars

\* C33: the backend is asked for an AI response to one mention id at most once
C33_AskedInOneCycle == \A m \in Mentions : twitter.asked[m] <= 1

\* the bot started when one post is left in the current window
InitLimit == InitCore /\ USE_HYBRID /\ vector_db = "qdrant" /\ InitBotWith(POST_RATE_LIMIT - 1)

SpecLimit == InitLimit /\ [][NextBot]_vars

\* C34: no more than POST_RATE_LIMIT replies are posted in one window, and a pass of
\* process_queue holds no more responses to post than its tracker has posts left
C34_PostsWithinRateLimit ==
    /\ \A t \in 1..(POST_WINDOW + MaxTicks) : PostedInWindow(t) <= POST_RATE_LIMIT
    /\ \A t \in Threads :
            bot_threads[t].pc = "post" =>
                Len(bot_threads[t].to_post) + bot_threads[t].data.posts_today <= POST_RATE_LIMIT

\* C35: every stored turn belongs to a conversation that has a record
C35_NoTurnWithoutRecord ==
    \A i \in 1..Len(messages) : conversation_exists(conversations, messages[i].conversation_id)

\* C36: for a conversation that holds more than max_messages turns,
\* get_conversation_context returns the max_messages turns appended last
C36_ContextHoldsLatestTurns ==
    \A c \in Clients :
        ReturnedFrom(c, "get_conversation_context")
            => LET ctx == calls[c].post.context
                   appended == calls[c].post.history
                   max_messages == calls[c].limit
               IN  Len(appended) > max_messages
                      => ctx = SubSeq(appended, Len(appended) - max_messages + 1, Len(appended))

\* C37: two ask_question calls that carry different caller-supplied conversation ids,
\* neither of them the static id, work on different conversations, and the prior
\* context given to one holds no turn written by the other
C37_DifferentIdsDifferentConversations ==
    \A c, d \in Clients :
        (/\ c # d
         /\ calls[c].op = "ask_question" /\ calls[d].op = "ask_question"
         /\ calls[c].given \notin {NoId, TempConversationId}
         /\ calls[d].given \notin {NoId, TempConversationId}
         /\ calls[c].given # calls[d].given)
            => /\ (calls[c].pc # "ask_resolve" /\ calls[d].pc # "ask_resolve")
                    => calls[c].cid # calls[d].cid
               /\ \A k \in 1..Len(calls[c].post.context) :
                    calls[c].post.context[k].req # calls[d].call

====
